---- MODULE Spec2Model ----
(***************************************************************************)
(* Model of the tvm-rust frontend: Function handles (src/src/function.rs), *)
(* the call Builder, the callback trampoline and global registration, and  *)
(* the process-wide name cache and last-error channel.                     *)
(*                                                                         *)
(* The native runtime is an external collaborator; it is modelled at the   *)
(* interface the frontend calls: a registry name -> callee reference, a    *)
(* table of what each native handle denotes, a per-handle count of         *)
(* TVMFuncFree calls and the last-error string.                            *)
(*                                                                         *)
(* Option<T> is modelled as a sequence: <<>> is None, <<x>> is Some(x).    *)
(***************************************************************************)
EXTENDS Integers, Sequences, FiniteSets, Bags, TLC

\* ---------------------------------------------------------------- bounds
MaxHandles == 5      \* native function handles ever allocated
FewHandles == 3      \* handles allocated where one registration is enough
MaxObjs == 2         \* free-standing live Function values
MaxDepth == 2        \* clone() steps from a constructed Function
MaxArgs == 2         \* length of the Builder's argument buffer
MaxMods == 2         \* live Module values
MaxModHandles == 1   \* native module handles ever loaded
MaxThreads == 2      \* threads calling Function::get_function
MaxCalls == 2        \* Function::get_function calls made by the threads

\* ------------------------------------------------------------- constants
\* ty::TypeCode discriminants used by the frontend (tav.type_code as c_int)
kInt == 0
kNull == 4
kNodeHandle == 8
kModuleHandle == 9
kFuncHandle == 10

Handles == 1..MaxHandles
ModHandles == 1..MaxModHandles
Threads == 1..MaxThreads
Names == {"a", "b"}                  \* names looked up / registered
Closures == {"sum", "fail"}          \* host functions given to register()
\* the handle the runtime has registered under "a" before the frontend runs
BuiltinHandle == CHOOSE h \in Handles : \A g \in Handles : h <= g
FailMsg == "boom"                    \* message of the closure "fail"
NativeMsg == "native"                \* last error set by a failing builtin
DupMsg == "dup"                      \* last error set by a refused registration

\* TVMArgValue values a caller pushes: payload and type code
ArgPool ==
  { [value |-> 1, type_code |-> kInt],
    [value |-> 2, type_code |-> kFuncHandle] }

\* raw payload/tag pairs the native runtime hands to a registered function
TagPool ==
  { [value |-> 1, type_code |-> kInt],
    [value |-> 2, type_code |-> kNull],
    [value |-> 3, type_code |-> kNodeHandle],
    [value |-> 4, type_code |-> kModuleHandle],
    [value |-> 5, type_code |-> kFuncHandle] }

\* TVMRetValue slots a caller registers with set_output
SlotPool ==
  { [value |-> 7, type_code |-> kInt],
    [value |-> 8, type_code |-> kInt] }

VARIABLES
  registry,    \* native global registry: name -> handle, 0 when absent
  nativeFn,    \* what each allocated native handle denotes
  nextHandle,  \* next native handle to allocate
  freeCount,   \* TVMFuncFree calls issued per handle (2: two or more)
  lastError,   \* process-wide last error message
  cache,       \* GLOBAL_FUNCTION_NAMES: <<>> before first use, else <<names>>
  objs,        \* bag of live free-standing Function values (with history)
  builder,     \* the Builder in scope: func, arg_buf, ret_buf
  made,        \* per handle: Function values constructed / cloned so far
  pushed,      \* the values pushed on the Builder in scope, in call order
  lastOp,      \* the last frontend operation and what it did
  mods,        \* bag of live Module values: handle, is_released, entry
  modFrees,    \* TVMModFree calls issued per module handle (2: two or more)
  nextMod,     \* next native module handle to hand out
  threads,     \* per thread: where it is in Function::get_function
  mutex,       \* holder of the lock of GLOBAL_FUNCTION_NAMES, 0 when free
  listCalls    \* TVMFuncListGlobalNames calls issued (2: two or more)

vars == <<registry, nativeFn, nextHandle, freeCount, lastError, cache,
          objs, builder, made, pushed, lastOp, mods, modFrees, nextMod,
          threads, mutex, listCalls>>

\* ------------------------------------------------------------- Function
\* Function::new
FunctionNew(handle, is_global, is_released) ==
  [handle |-> handle, is_global |-> is_global,
   is_released |-> is_released, is_cloned |-> FALSE]

\* a field-by-field copy, as #[derive(Clone)] would make
FunctionCloneCopy(self) == self

\* a clone whose second branch forgets the is_global flag
FunctionCloneLosesGlobal(self) ==
  IF ~self.is_released /\ ~self.is_cloned
    THEN [handle |-> self.handle, is_global |-> self.is_global,
          is_released |-> self.is_released, is_cloned |-> TRUE]
    ELSE [handle |-> self.handle, is_global |-> FALSE,
          is_released |-> self.is_released, is_cloned |-> FALSE]

\* impl Clone for Function
FunctionClone(self) ==
  IF ~self.is_released /\ ~self.is_cloned
    THEN [handle |-> self.handle, is_global |-> self.is_global,
          is_released |-> self.is_released, is_cloned |-> TRUE]
    ELSE FunctionNew(self.handle, self.is_global, self.is_released)

\* impl Drop for Function: TRUE iff drop calls TVMFuncFree(self.handle)
DropFrees(self) ==
  ~self.is_released /\ ~self.is_global /\ ~self.is_cloned

\* A Function value with its history: how it was made (origin), how many
\* clone() steps separate it from a constructed value (depth), and whether
\* the value it descends from was constructed with is_global = TRUE.
Obj(f, origin, depth, rootGlobal) ==
  [fn |-> f, origin |-> origin, depth |-> depth, rootGlobal |-> rootGlobal]

CloneObj(o) == Obj(FunctionClone(o.fn), "clone", o.depth + 1, o.rootGlobal)

\* the record of one drop: the value dropped and whether TVMFuncFree ran
DropEvent(o) == [obj |-> o, freed |-> DropFrees(o.fn)]

Sat(n) == IF n >= 2 THEN 2 ELSE n

\* freeCount after dropping the values of the sequence os, in order
RECURSIVE FreeAll(_, _)
FreeAll(fc, os) ==
  IF os = <<>> THEN fc
  ELSE LET o == Head(os)
           fc1 == IF DropFrees(o.fn)
                    THEN [fc EXCEPT ![o.fn.handle] = Sat(@ + 1)]
                    ELSE fc
       IN FreeAll(fc1, Tail(os))

DropEvents(os) == [i \in 1..Len(os) |-> DropEvent(os[i])]

\* ------------------------------------------------ history of each handle
\* "none": no Function value was made on the handle; "owner": exactly one
\* was constructed, with is_global = FALSE and is_released = FALSE, and
\* never cloned; "owner+clone": that one was cloned exactly once; "other":
\* anything else.
MadeRoot(m, f) ==
  [m EXCEPT ![f.handle] =
     IF @ = "none" /\ ~f.is_global /\ ~f.is_released THEN "owner"
     ELSE "other"]

MadeClone(m, f) ==
  [m EXCEPT ![f.handle] =
     IF @ = "owner" /\ ~f.is_cloned THEN "owner+clone" ELSE "other"]

\* ------------------------------------------------------- results, lastOp
Result(kind, msg, value, type_code) ==
  [kind |-> kind, msg |-> msg, value |-> value, type_code |-> type_code]

Unit == Result("unit", "", 0, kNull)

\* op: the operation; name: the name it was given; result: what it returned
\* (or the panic that ended it); calls: the TVMFuncCall calls it issued;
\* status: the statuses the native calls it checked returned; drops: the
\* Function values it dropped; prev: what the operation found where it
\* wrote (<<>> when nothing): the handle bound to the name for a
\* registration, the registered slot for a set_output; slot: the slot a
\* set_output was given; cb: the run of the trampoline, for a call the
\* native runtime made into it.
Op(op, name, result, calls, status, drops) ==
  [op |-> op, name |-> name, result |-> result, calls |-> calls,
   status |-> status, drops |-> drops, prev |-> <<>>, slot |-> <<>>,
   cb |-> <<>>]

\* ------------------------------------------------------- native runtime
\* TVMFuncListGlobalNames: the names bound in the registry
TVMFuncListGlobalNames == { n \in Names : registry[n] # 0 }

\* TVMFuncGetGlobal: the callee reference bound to name, 0 (null) if none
TVMFuncGetGlobal(name) == registry[name]

\* TVMCbArgToReturn: the return-position encoding of a handle argument
TVMCbArgToReturn(value) == value + 100

\* ------------------------------------------------------ name resolution
\* a cache that lists the registry again on every dereference
CacheDerefRelist == <<TVMFuncListGlobalNames>>

\* GLOBAL_FUNCTION_NAMES after a dereference: filled on first use only
CacheDeref == IF cache = <<>> THEN <<TVMFuncListGlobalNames>> ELSE cache

\* the TVMFuncListGlobalNames calls made once GLOBAL_FUNCTION_NAMES has
\* been dereferenced: the initializer runs on the first use only
ListCallsDeref == IF cache = <<>> THEN Sat(listCalls + 1) ELSE listCalls

\* get_global_func
GetGlobalFunc(name, is_global) ==
  LET handle == TVMFuncGetGlobal(name)
  IN IF handle # 0 THEN <<FunctionNew(handle, is_global, FALSE)>> ELSE <<>>

\* Function::get_function
FunctionGetFunction(name, is_global) ==
  LET gnames == CacheDeref[1]
  IN IF name \notin gnames THEN <<>> ELSE GetGlobalFunc(name, is_global)

\* ---------------------------------------------------- callback trampoline
\* TVMArgValue::to_int: the integer payload, <<>> when the tag is not an
\* integer tag (the accessor validates the tag and fails otherwise)
ToInt(arg) == IF arg.type_code = kInt THEN <<arg.value>> ELSE <<>>

RECURSIVE SumInts(_)
SumInts(args) ==
  IF args = <<>> THEN 0 ELSE ToInt(Head(args))[1] + SumInts(Tail(args))

\* The host functions given to register(): "sum" is the doc example of
\* register (it panics when to_int fails), "fail" returns an error
\* carrying FailMsg.
HostFn(c, args) ==
  IF c = "fail" THEN Result("err", FailMsg, 0, kNull)
  ELSE IF \A i \in 1..Len(args) : ToInt(args[i]) # <<>>
    THEN Result("ok", "", SumInts(args), kInt)
    ELSE Result("panic", "", 0, kNull)

IsHandleCode(tcode) ==
  tcode = kNodeHandle \/ tcode = kFuncHandle \/ tcode = kModuleHandle

\* the statuses a native call reports
NativeStatus == {0, -1}

\* One way the runtime answers the native calls of a trampoline run on len
\* arguments: conv[i] is the status TVMCbArgToReturn reports for argument
\* i, set_return the status TVMCFuncSetReturn reports.
NativeRuns(len) ==
  [conv : [1..len -> NativeStatus], set_return : NativeStatus]

\* set_last_error(msg): the last error afterwards
SetLastError(msg) == msg

\* one step of a trampoline run: a native call, the call of the host
\* function, a panic of check_call! or of the host function, or the return
Ev(ev, i, value, type_code, msg) ==
  [ev |-> ev, i |-> i, value |-> value, type_code |-> type_code, msg |-> msg]

\* tvm_callback, the argument loop: the iteration in which check_call!
\* panics (len + 1 when none does), the local_args pushed and the
\* TVMCbArgToReturn calls made, in order
CbLoop(args_list, type_codes_list, len, native) ==
  LET failing == { i \in 1..len : /\ IsHandleCode(type_codes_list[i])
                                  /\ native.conv[i] # 0 }
      stop == IF failing = {} THEN len + 1
              ELSE CHOOSE i \in failing : \A j \in failing : i <= j
      done == IF stop > len THEN len ELSE stop - 1
      called == SelectSeq([i \in 1..len |-> i],
                          LAMBDA i : IsHandleCode(type_codes_list[i])
                                     /\ i <= stop)
  IN [panicked |-> stop <= len,
      local_args |->
        [i \in 1..done |->
           [value |-> IF IsHandleCode(type_codes_list[i])
                        THEN TVMCbArgToReturn(args_list[i])
                        ELSE args_list[i],
            type_code |-> type_codes_list[i]]],
      trace |->
        [k \in 1..Len(called) |->
           Ev("TVMCbArgToReturn", called[k], args_list[called[k]],
              type_codes_list[called[k]], "")]
        \o (IF stop <= len THEN <<Ev("panic", stop, 0, kNull, NativeMsg)>>
            ELSE <<>>)]

\* a match whose Err arm does not return
CbMatchFallsThrough(rv, native) ==
  IF rv.kind = "panic" THEN <<Ev("panic", 0, 0, kNull, rv.msg)>>
  ELSE (IF rv.kind = "err"
          THEN <<Ev("set_last_error", 0, 0, kNull, rv.msg)>> ELSE <<>>)
       \o <<Ev("TVMCFuncSetReturn", 0, rv.value, rv.type_code, "")>>
       \o (IF native.set_return # 0
             THEN <<Ev("panic", 0, 0, kNull, NativeMsg)>>
             ELSE <<Ev("return", 0, 0, kNull, "")>>)

\* tvm_callback, after rust_fn has produced rv: the match on it and the
\* TVMCFuncSetReturn call
CbMatch(rv, native) ==
  IF rv.kind = "panic" THEN <<Ev("panic", 0, 0, kNull, rv.msg)>>
  ELSE IF rv.kind = "err"
    THEN <<Ev("set_last_error", 0, 0, kNull, rv.msg),
           Ev("return", 0, -1, kNull, "")>>
  ELSE <<Ev("TVMCFuncSetReturn", 0, rv.value, rv.type_code, "")>>
       \o (IF native.set_return # 0
             THEN <<Ev("panic", 0, 0, kNull, NativeMsg)>>
             ELSE <<Ev("return", 0, 0, kNull, "")>>)

\* the events of a trace with a given name
EvsOf(trace, ev) == SelectSeq(trace, LAMBDA e : e.ev = ev)

\* tvm_callback: the raw buffers it was handed, its steps in order (trace),
\* the local_args given to the host function and its result rv (<<>> when
\* it was not called), and what goes back to the native caller: whether a panic unwound into it, the status, the last
\* error afterwards and the value given to TVMCFuncSetReturn.
TvmCallback(c, args_list, type_codes_list, len, native) ==
  LET loop == CbLoop(args_list, type_codes_list, len, native)
      rv == HostFn(c, loop.local_args)
      trace == IF loop.panicked THEN loop.trace
               ELSE loop.trace
                    \o <<Ev("rust_fn", 0, 0, kNull, "")>>
                    \o CbMatch(rv, native)
      last == trace[Len(trace)]
      set_last == EvsOf(trace, "set_last_error")
      set_return == EvsOf(trace, "TVMCFuncSetReturn")
  IN [args_list |-> args_list,
      type_codes_list |-> type_codes_list,
      len |-> len,
      trace |-> trace,
      local_args |-> loop.local_args,
      rv |-> IF loop.panicked THEN <<>> ELSE <<rv>>,
      unwound |-> last.ev = "panic",
      status |-> IF last.ev = "return" THEN last.value ELSE -1,
      err |-> IF set_last # <<>> THEN SetLastError(set_last[Len(set_last)].msg)
              ELSE IF last.ev = "panic" /\ last.msg = NativeMsg THEN NativeMsg
              ELSE lastError,
      set_return |-> [k \in 1..Len(set_return) |->
                        [value |-> set_return[k].value,
                         type_code |-> set_return[k].type_code]]]

\* What the native caller of TVMFuncCall gets back: a status, the last
\* error after the call, the value written through the out parameters, and
\* whether the process was aborted (a host panic reaching the boundary).
Outcome(status, err, ret, abort) ==
  [status |-> status, err |-> err, ret |-> ret, abort |-> abort]

BuiltinOutcomes ==
  { Outcome(0, lastError, [value |-> 0, type_code |-> kNull], FALSE),
    Outcome(-1, NativeMsg, [value |-> 0, type_code |-> kNull], FALSE) }

\* TVMFuncCall(handle, values, tcodes, num_args, ..): a released handle is
\* a dangling reference, any outcome may follow.
TVMFuncCall(handle, values, tcodes, num_args) ==
  IF freeCount[handle] > 0
    THEN BuiltinOutcomes
         \cup { Outcome(-1, lastError, [value |-> 0, type_code |-> kNull], TRUE) }
  ELSE IF nativeFn[handle] \in Closures
    THEN { LET cb == TvmCallback(nativeFn[handle], values, tcodes, num_args,
                                 native)
           IN Outcome(cb.status, cb.err,
                      IF cb.set_return # <<>> /\ ~cb.unwound
                        THEN cb.set_return[1]
                        ELSE [value |-> 0, type_code |-> kNull],
                      cb.unwound) : native \in NativeRuns(num_args) }
  ELSE BuiltinOutcomes

\* --------------------------------------------------------------- Builder
\* Builder::new / Builder::default
BuilderNew(func, arg_buf, ret_buf) ==
  [func |-> func, arg_buf |-> arg_buf, ret_buf |-> ret_buf]

BuilderDefault == BuilderNew(<<>>, <<>>, <<>>)

\* an arg that puts the new value in front of the buffer
BuilderArgFront(self, tvm_arg) ==
  IF self.arg_buf = <<>>
    THEN [self EXCEPT !.arg_buf = << <<tvm_arg>> >>]
    ELSE [self EXCEPT !.arg_buf = << <<tvm_arg>> \o self.arg_buf[1] >>]

\* Builder::arg
BuilderArg(self, tvm_arg) ==
  IF self.arg_buf = <<>>
    THEN [self EXCEPT !.arg_buf = << <<tvm_arg>> >>]
    ELSE [self EXCEPT !.arg_buf = << Append(self.arg_buf[1], tvm_arg) >>]

\* Builder::args
RECURSIVE BuilderArgs(_, _)
BuilderArgs(self, args) ==
  IF args = <<>> THEN self
  ELSE BuilderArgs(BuilderArg(self, Head(args)), Tail(args))

\* a set_output that keeps the slots registered before
BuilderSetOutputAppends(self, tvm_ret) ==
  IF self.ret_buf = <<>>
    THEN [self EXCEPT !.ret_buf = << <<tvm_ret>> >>]
    ELSE [self EXCEPT !.ret_buf = << Append(self.ret_buf[1], tvm_ret) >>]

\* Builder::set_output
BuilderSetOutput(self, tvm_ret) ==
  [self EXCEPT !.ret_buf = << <<tvm_ret>> >>]

\* #[derive(Clone)] for Builder: every field is cloned
BuilderClone(self) ==
  [func |-> IF self.func = <<>> THEN <<>> ELSE <<CloneObj(self.func[1])>>,
   arg_buf |-> self.arg_buf,
   ret_buf |-> self.ret_buf]

Truncate(s, n) == IF Len(s) > n THEN SubSeq(s, 1, n) ELSE s

\* call_once: the arguments of the TVMFuncCall it issues (self.func is Some)
CallOnceArgs(self) ==
  IF self.arg_buf # <<>>
    THEN LET arg_buf == self.arg_buf[1]
             has_ret == self.ret_buf # <<>>
             num_args == IF has_ret THEN Len(arg_buf) + 1 ELSE Len(arg_buf)
             values0 == [i \in 1..Len(arg_buf) |-> arg_buf[i].value]
             tcodes0 == [i \in 1..Len(arg_buf) |-> arg_buf[i].type_code]
             values == IF has_ret
                         THEN Append(values0, self.ret_buf[1][1].value)
                         ELSE values0
             tcodes == IF has_ret
                         THEN Append(tcodes0, self.ret_buf[1][1].type_code)
                         ELSE tcodes0
         IN [handle |-> self.func[1].fn.handle,
             values |-> Truncate(values, num_args),
             tcodes |-> Truncate(tcodes, num_args),
             num_args |-> num_args]
    ELSE [handle |-> self.func[1].fn.handle,
          values |-> <<>>, tcodes |-> <<>>, num_args |-> 0]

\* a call_once whose first branch falls through into the second
CallOnceCallsBoth(self) ==
  IF self.func = <<>> THEN <<>>
  ELSE IF self.arg_buf # <<>>
    THEN <<CallOnceArgs(self),
           [handle |-> self.func[1].fn.handle,
            values |-> <<>>, tcodes |-> <<>>, num_args |-> 0]>>
    ELSE <<CallOnceArgs(self)>>

\* call_once: the native calls it issues, none when no func is attached
CallOnceCalls(self) ==
  IF self.func = <<>> THEN <<>> ELSE <<CallOnceArgs(self)>>

\* call_once: what it returns for an outcome of its native call
\* (check_call! panics with the last error on a non-zero status)
CallOnceResult(out) ==
  IF out.abort THEN Result("abort", "", 0, kNull)
  ELSE IF out.status # 0 THEN Result("panic", out.err, 0, kNull)
  ELSE Result("ok", "", out.ret.value, out.ret.type_code)

\* an invoke that moves the argument buffer out of the Builder
InvokeTakesArgs(self) == [self EXCEPT !.arg_buf = <<>>]

\* Builder::invoke: the Builder after the call; call_once consumed a clone
InvokeLeaves(self) == self

\* a Builder whose func is forgotten instead of dropped
BuilderDropsNothing(b) == <<>>

\* the values a Builder owns that are dropped with it
BuilderDrops(b) == b.func

\* --------------------------------------------------------------- threads
\* A thread: pc is where it is in Function::get_function ("idle" outside
\* it), name and is_global its arguments, res the Option<Function> the
\* last call returned, calls the calls it has made.
Thread(pc, name, is_global, res, calls) ==
  [pc |-> pc, name |-> name, is_global |-> is_global, res |-> res,
   calls |-> calls]

ThreadIdle(calls) == Thread("idle", "", FALSE, <<>>, calls)

\* ------------------------------------------------------------------ Init
Init ==
  /\ registry = [n \in Names |-> IF n = "a" THEN BuiltinHandle ELSE 0]
  /\ nativeFn = [h \in Handles |-> IF h = BuiltinHandle THEN "builtin" ELSE "none"]
  /\ nextHandle = BuiltinHandle + 1
  /\ freeCount = [h \in Handles |-> 0]
  /\ lastError = ""
  /\ cache = <<>>
  /\ objs = EmptyBag
  /\ builder = BuilderDefault
  /\ made = [h \in Handles |-> "none"]
  /\ pushed = <<>>
  /\ lastOp = Op("init", "", Unit, <<>>, <<>>, <<>>)
  /\ mods = EmptyBag
  /\ modFrees = [h \in ModHandles |-> 0]
  /\ nextMod = 1
  /\ threads = [t \in Threads |-> ThreadIdle(0)]
  /\ mutex = 0
  /\ listCalls = 0

Room == BagCardinality(objs) < MaxObjs

Put(o) == objs (+) SetToBag({o})
Take(o) == objs (-) SetToBag({o})

\* --------------------------------------------------------------- actions
\* Function::new on a handle the runtime has just handed out
NewFunction(is_global, is_released) ==
  /\ nextHandle <= MaxHandles
  /\ Room
  /\ LET f == FunctionNew(nextHandle, is_global, is_released)
     IN /\ objs' = Put(Obj(f, "new", 0, is_global))
        /\ made' = MadeRoot(made, f)
  /\ nativeFn' = [nativeFn EXCEPT ![nextHandle] = "builtin"]
  /\ nextHandle' = nextHandle + 1
  /\ lastOp' = Op("new", "", Unit, <<>>, <<>>, <<>>)
  /\ UNCHANGED <<registry, freeCount, lastError, cache, builder, pushed,
                 mods, modFrees, nextMod, threads, mutex, listCalls>>

\* f.clone() of a live Function
CloneFn(o) ==
  /\ BagIn(o, objs)
  /\ o.depth < MaxDepth
  /\ Room
  /\ objs' = Put(CloneObj(o))
  /\ made' = MadeClone(made, o.fn)
  /\ lastOp' = Op("clone", "", Unit, <<>>, <<>>, <<>>)
  /\ UNCHANGED <<registry, nativeFn, nextHandle, freeCount, lastError,
                 cache, builder, pushed,
                 mods, modFrees, nextMod, threads, mutex, listCalls>>

\* a live Function goes out of scope
DropFn(o) ==
  /\ BagIn(o, objs)
  /\ objs' = Take(o)
  /\ freeCount' = FreeAll(freeCount, <<o>>)
  /\ lastOp' = Op("drop", "", Unit, <<>>, <<>>, DropEvents(<<o>>))
  /\ UNCHANGED <<registry, nativeFn, nextHandle, lastError, cache,
                 builder, made, pushed,
                 mods, modFrees, nextMod, threads, mutex, listCalls>>

\* Function::get_function(name, is_global), the result kept by the caller
GetFunction(name, is_global) ==
  LET res == FunctionGetFunction(name, is_global)
  IN /\ cache' = CacheDeref
     /\ listCalls' = ListCallsDeref
     /\ IF res = <<>>
          THEN /\ lastOp' = Op("get_function", name,
                               Result("none", "", 0, kNull), <<>>, <<>>, <<>>)
               /\ UNCHANGED <<objs, made>>
          ELSE /\ Room
               /\ objs' = Put(Obj(res[1], "registry", 0, is_global))
               /\ made' = MadeRoot(made, res[1])
               /\ lastOp' = Op("get_function", name,
                               Result("some", "", res[1].handle, kFuncHandle),
                               <<>>, <<0>>, <<>>)
     /\ UNCHANGED <<registry, nativeFn, nextHandle, freeCount, lastError,
                    builder, pushed,
                 mods, modFrees, nextMod, threads, mutex>>

\* Builder::get_function(name, is_global): the previous func is dropped
BuilderGetFunction(name, is_global) ==
  LET res == FunctionGetFunction(name, is_global)
      old == BuilderDrops(builder)
  IN /\ cache' = CacheDeref
     /\ listCalls' = ListCallsDeref
     /\ builder' = [builder EXCEPT !.func =
                      IF res = <<>> THEN <<>>
                      ELSE <<Obj(res[1], "registry", 0, is_global)>>]
     /\ made' = IF res = <<>> THEN made ELSE MadeRoot(made, res[1])
     /\ freeCount' = FreeAll(freeCount, old)
     /\ lastOp' = Op("builder_get_function", name,
                     IF res = <<>> THEN Result("none", "", 0, kNull)
                     ELSE Result("some", "", res[1].handle, kFuncHandle),
                     <<>>, IF res = <<>> THEN <<>> ELSE <<0>>,
                     DropEvents(old))
     /\ UNCHANGED <<registry, nativeFn, nextHandle, lastError, objs, pushed,
                 mods, modFrees, nextMod, threads, mutex>>

\* Builder::from(func): the Function moves into a new Builder, which
\* replaces the Builder in scope
BuilderFrom(o) ==
  LET old == BuilderDrops(builder)
  IN /\ BagIn(o, objs)
     /\ objs' = Take(o)
     /\ builder' = BuilderNew(<<o>>, <<>>, <<>>)
     /\ pushed' = <<>>
     /\ freeCount' = FreeAll(freeCount, old)
     /\ lastOp' = Op("builder_from", "", Unit, <<>>, <<>>, DropEvents(old))
     /\ UNCHANGED <<registry, nativeFn, nextHandle, lastError, cache, made,
                 mods, modFrees, nextMod, threads, mutex, listCalls>>

\* the Builder in scope is dropped and a Builder::default() takes its place
BuilderReset ==
  LET old == BuilderDrops(builder)
  IN /\ builder # BuilderDefault
     /\ builder' = BuilderDefault
     /\ pushed' = <<>>
     /\ freeCount' = FreeAll(freeCount, old)
     /\ lastOp' = Op("builder_drop", "", Unit, <<>>, <<>>, DropEvents(old))
     /\ UNCHANGED <<registry, nativeFn, nextHandle, lastError, cache,
                    objs, made,
                 mods, modFrees, nextMod, threads, mutex, listCalls>>

\* builder.arg(&a)
Arg(a) ==
  /\ Len(pushed) < MaxArgs
  /\ builder' = BuilderArg(builder, a)
  /\ pushed' = Append(pushed, a)
  /\ lastOp' = Op("arg", "", Unit, <<>>, <<>>, <<>>)
  /\ UNCHANGED <<registry, nativeFn, nextHandle, freeCount, lastError,
                 cache, objs, made,
                 mods, modFrees, nextMod, threads, mutex, listCalls>>

\* builder.args(&[..])
Args(as) ==
  /\ Len(pushed) + Len(as) <= MaxArgs
  /\ builder' = BuilderArgs(builder, as)
  /\ pushed' = pushed \o as
  /\ lastOp' = Op("args", "", Unit, <<>>, <<>>, <<>>)
  /\ UNCHANGED <<registry, nativeFn, nextHandle, freeCount, lastError,
                 cache, objs, made,
                 mods, modFrees, nextMod, threads, mutex, listCalls>>

\* builder.set_output(&mut slot)
SetOutput(slot) ==
  /\ builder' = BuilderSetOutput(builder, slot)
  /\ lastOp' = [Op("set_output", "", Unit, <<>>, <<>>, <<>>)
                 EXCEPT !.prev = IF builder.ret_buf = <<>> THEN <<>>
                                 ELSE builder.ret_buf[1],
                        !.slot = <<slot>>]
  /\ UNCHANGED <<registry, nativeFn, nextHandle, freeCount, lastError,
                 cache, objs, made, pushed,
                 mods, modFrees, nextMod, threads, mutex, listCalls>>

\* Builder::invoke: call_once on a clone of the Builder; the clone, and
\* with it the clone of func, is dropped when call_once returns or panics
Invoke ==
  LET self == BuilderClone(builder)
      calls == CallOnceCalls(self)
      dropped == BuilderDrops(self)
  IN /\ builder' = InvokeLeaves(builder)
     /\ made' = IF builder.func = <<>> THEN made
                ELSE MadeClone(made, builder.func[1].fn)
     /\ IF calls = <<>>
          THEN /\ lastOp' = Op("invoke", "",
                               Result("FunctionNotFound", "", 0, kNull),
                               <<>>, <<>>, DropEvents(dropped))
               /\ freeCount' = FreeAll(freeCount, dropped)
               /\ UNCHANGED lastError
          ELSE LET call == calls[Len(calls)]
               IN \E out \in TVMFuncCall(call.handle, call.values,
                                         call.tcodes, call.num_args) :
                    /\ lastError' = out.err
                    /\ freeCount' = IF out.abort THEN freeCount
                                    ELSE FreeAll(freeCount, dropped)
                    /\ lastOp' = Op("invoke", "", CallOnceResult(out), calls,
                                    IF out.abort THEN <<>> ELSE <<out.status>>,
                                    IF out.abort THEN <<>>
                                    ELSE DropEvents(dropped))
     /\ UNCHANGED <<registry, nativeFn, nextHandle, cache, objs, pushed,
                 mods, modFrees, nextMod, threads, mutex, listCalls>>

\* register(f, name, override_): convert_to_tvm_func, TVMFuncRegisterGlobal,
\* then func goes out of scope (also when check_call! panics). The registry
\* keeps its own reference to the function.
Register(c, name, override_) ==
  LET fhandle == nextHandle
      func == FunctionNew(fhandle, FALSE, FALSE)
      refused == registry[name] # 0 /\ ~override_
      dropped == <<Obj(func, "convert", 0, FALSE)>>
      prev == IF registry[name] # 0 THEN <<registry[name]>> ELSE <<>>
  IN /\ fhandle <= MaxHandles
     /\ refused \/ fhandle + 1 <= MaxHandles
     /\ made' = MadeRoot(made, func)
     /\ freeCount' = FreeAll(freeCount, dropped)
     /\ IF refused
          THEN /\ nativeFn' = [nativeFn EXCEPT ![fhandle] = c]
               /\ nextHandle' = fhandle + 1
               /\ lastError' = DupMsg
               /\ lastOp' = [Op("register", name,
                                 Result("panic", DupMsg, 0, kNull), <<>>,
                                 <<0, -1>>, DropEvents(dropped))
                               EXCEPT !.prev = prev]
               /\ UNCHANGED registry
          ELSE /\ nativeFn' = [nativeFn EXCEPT ![fhandle] = c,
                                               ![fhandle + 1] = c]
               /\ nextHandle' = fhandle + 2
               /\ registry' = [registry EXCEPT ![name] = fhandle + 1]
               /\ lastOp' = [Op("register", name, Result("ok", "", 0, kNull),
                                 <<>>, <<0, 0>>, DropEvents(dropped))
                               EXCEPT !.prev = prev]
               /\ UNCHANGED lastError
     /\ UNCHANGED <<cache, objs, builder, pushed,
                 mods, modFrees, nextMod, threads, mutex, listCalls>>

\* The native runtime calls a live function made by convert_to_tvm_func
\* with the raw buffers of args: tvm_callback runs on the host function
\* behind the handle, the runtime answering its native calls as in native.
NativeCall(handle, args, native) ==
  /\ nativeFn[handle] \in Closures
  /\ freeCount[handle] = 0
  /\ LET cb == TvmCallback(nativeFn[handle],
                           [i \in 1..Len(args) |-> args[i].value],
                           [i \in 1..Len(args) |-> args[i].type_code],
                           Len(args), native)
     IN /\ lastError' = cb.err
        /\ lastOp' = [Op("tvm_callback", "", Unit, <<>>,
                         IF cb.unwound THEN <<>> ELSE <<cb.status>>, <<>>)
                       EXCEPT !.cb = <<cb>>]
  /\ UNCHANGED <<registry, nativeFn, nextHandle, freeCount, cache, objs,
                 builder, made, pushed,
                 mods, modFrees, nextMod, threads, mutex, listCalls>>

ArgSeqs == UNION { [1..n -> ArgPool] : n \in 0..MaxArgs }

TagSeqs == UNION { [1..n -> TagPool] : n \in 0..MaxArgs }

\* Function values on their own: construction, clone, drop
NextOwn ==
  \/ \E g \in BOOLEAN, r \in BOOLEAN :
       nextHandle <= FewHandles /\ NewFunction(g, r)
  \/ \E o \in BagToSet(objs) : CloneFn(o)
  \/ \E o \in BagToSet(objs) : DropFn(o)

SpecOwn == Init /\ [][NextOwn]_vars

\* name lookup and registration, and the Function values lookups return
NextLookup ==
  \/ \E n \in Names, g \in BOOLEAN : GetFunction(n, g)
  \/ \E o \in BagToSet(objs) : CloneFn(o)
  \/ \E o \in BagToSet(objs) : DropFn(o)
  \/ \E n \in Names, ov \in BOOLEAN :
       nextHandle < FewHandles /\ Register("sum", n, ov)

SpecLookup == Init /\ [][NextLookup]_vars

\* registering a name again: both closures, with and without override
NextOverride ==
  \/ \E n \in Names, g \in BOOLEAN : GetFunction(n, g)
  \/ \E o \in BagToSet(objs) : DropFn(o)
  \/ \E c \in Closures, ov \in BOOLEAN : Register(c, "b", ov)

SpecOverride == Init /\ [][NextOverride]_vars

\* the Builder: attaching a function, pushing arguments, invoking
NextCall ==
  \/ \E n \in Names, g \in BOOLEAN : BuilderGetFunction(n, g)
  \/ BuilderReset
  \/ \E a \in ArgPool : Arg(a)
  \/ \E as \in ArgSeqs : Args(as)
  \/ \E s \in SlotPool : SetOutput(s)
  \/ Invoke
  \/ \E c \in Closures : nextHandle < FewHandles /\ Register(c, "b", FALSE)

SpecCall == Init /\ [][NextCall]_vars

\* the trampoline: the runtime calling registered host functions
NextTramp ==
  \/ \E c \in Closures : nextHandle < FewHandles /\ Register(c, "b", FALSE)
  \/ \E h \in Handles, as \in TagSeqs :
       \E native \in NativeRuns(Len(as)) : NativeCall(h, as, native)

SpecTramp == Init /\ [][NextTramp]_vars

\* a Builder made from a Function value: constructed or cloned, then
\* invoked and dropped
NextHold ==
  \/ \E g \in BOOLEAN, r \in BOOLEAN :
       nextHandle <= FewHandles /\ NewFunction(g, r)
  \/ \E o \in BagToSet(objs) : CloneFn(o)
  \/ \E o \in BagToSet(objs) : DropFn(o)
  \/ \E o \in BagToSet(objs) : BuilderFrom(o)
  \/ BuilderReset
  \/ Invoke

SpecHold == Init /\ [][NextHold]_vars

\* ---------------------------------------------------------------- Module
ENTRY_FUNC == "__tvm_main__"

\* the names looked up in a module
ModNames == {ENTRY_FUNC, "add"}

\* what the native module behind a handle exports: the first module
\* loaded has an entry point, the others export "add" only
ModExports(handle) == IF handle = 1 THEN {ENTRY_FUNC} ELSE {"add"}

\* Module::new
ModuleNew(handle, is_released, entry) ==
  [handle |-> handle, is_released |-> is_released, entry |-> entry]

\* A Module value with its history: resolved is TRUE once entry_func has
\* looked the entry point up for this value and stored it.
Mod(m, resolved) == [mod |-> m, resolved |-> resolved]

\* #[derive(Clone)] for Module: every field cloned, entry by Function::clone
ModuleClone(self) ==
  ModuleNew(self.handle, self.is_released,
            [i \in 1..Len(self.entry) |-> CloneObj(self.entry[i])])

\* impl Drop for Module: TRUE iff drop calls TVMModFree(self.handle)
ModuleDropFrees(self) == ~self.is_released

\* the answer of one TVMModGetFunction call: its status, whether the
\* reference written is non-null, and whether the call ended the process
ModAnswer(status, found, abort) ==
  [status |-> status, found |-> found, abort |-> abort]

\* TVMModGetFunction(handle, name): on a module that was freed the handle
\* dangles and the call may do anything
TVMModGetFunction(handle, name) ==
  IF modFrees[handle] = 0
    THEN { ModAnswer(0, name \in ModExports(handle), FALSE) }
    ELSE { ModAnswer(0, TRUE, FALSE), ModAnswer(0, FALSE, FALSE),
           ModAnswer(-1, FALSE, FALSE), ModAnswer(0, FALSE, TRUE) }

\* a get_function that hands out a borrowed (global) Function
ModuleGetFunctionGlobal(ans, fhandle, name) ==
  IF ans.abort
    THEN [result |-> Result("abort", "", 0, kNull), func |-> <<>>]
  ELSE IF ans.status # 0
    THEN [result |-> Result("panic", NativeMsg, 0, kNull), func |-> <<>>]
  ELSE IF ~ans.found
    THEN [result |-> Result("NullHandle", name, 0, kNull), func |-> <<>>]
  ELSE [result |-> Result("ok", "", fhandle, kFuncHandle),
        func |-> <<FunctionNew(fhandle, TRUE, FALSE)>>]

\* Module::get_function, given the answer of TVMModGetFunction and the
\* handle it wrote when the reference is non-null: the value returned (or
\* the panic of check_call!) and the Function constructed, if any
ModuleGetFunction(ans, fhandle, name) ==
  IF ans.abort
    THEN [result |-> Result("abort", "", 0, kNull), func |-> <<>>]
  ELSE IF ans.status # 0
    THEN [result |-> Result("panic", NativeMsg, 0, kNull), func |-> <<>>]
  ELSE IF ~ans.found
    THEN [result |-> Result("NullHandle", name, 0, kNull), func |-> <<>>]
  ELSE [result |-> Result("ok", "", fhandle, kFuncHandle),
        func |-> <<FunctionNew(fhandle, FALSE, FALSE)>>]

\* module.entry.take() in From<&mut Module> for Builder: the module left
\* behind and the Option<Function> taken
EntryTake(self) ==
  [module |-> [self EXCEPT !.entry = <<>>], func |-> self.entry]

ModRoom == BagCardinality(mods) < MaxMods

ModPut(ms, m) == ms (+) SetToBag({m})
ModTake(ms, m) == ms (-) SetToBag({m})

\* modFrees after a Module is dropped
ModFree(mf, m) ==
  IF ModuleDropFrees(m) THEN [mf EXCEPT ![m.handle] = Sat(@ + 1)] ELSE mf

\* a module is loaded: Module::new on a handle the runtime has just handed
\* out, with no entry yet
NewModule(is_released) ==
  /\ nextMod <= MaxModHandles
  /\ ModRoom
  /\ mods' = ModPut(mods, Mod(ModuleNew(nextMod, is_released, <<>>), FALSE))
  /\ nextMod' = nextMod + 1
  /\ lastOp' = Op("module_new", "", Unit, <<>>, <<>>, <<>>)
  /\ UNCHANGED <<registry, nativeFn, nextHandle, freeCount, lastError,
                 cache, objs, builder, made, pushed, modFrees, threads,
                 mutex, listCalls>>

\* module = module.entry_func(): self is moved in and returned; when
\* check_call! panics self is dropped by the unwinding. lastOp.status holds
\* the status of the native lookup, <<>> when none was issued; lastOp.prev
\* the Module the call was made on.
ModEntryFunc(m) ==
  /\ BagIn(m, mods)
  /\ IF m.mod.entry # <<>>
       THEN /\ lastOp' = [Op("entry_func", ENTRY_FUNC, Unit, <<>>, <<>>, <<>>)
                            EXCEPT !.prev = <<m>>]
            /\ UNCHANGED <<mods, modFrees, nativeFn, nextHandle, made,
                           lastError>>
       ELSE \E ans \in TVMModGetFunction(m.mod.handle, ENTRY_FUNC) :
              LET got == ModuleGetFunction(ans, nextHandle, ENTRY_FUNC)
                  kind == got.result.kind
              IN /\ ans.found => nextHandle <= MaxHandles
                 /\ lastOp' = [Op("entry_func", ENTRY_FUNC,
                                  IF kind \in {"panic", "abort"}
                                    THEN got.result ELSE Unit,
                                  <<>>,
                                  IF ans.abort THEN <<>> ELSE <<ans.status>>,
                                  <<>>)
                                 EXCEPT !.prev = <<m>>]
                 /\ lastError' = IF kind = "panic" THEN NativeMsg
                                 ELSE lastError
                 /\ IF ans.found
                      THEN /\ nativeFn' = [nativeFn EXCEPT
                                             ![nextHandle] = "builtin"]
                           /\ nextHandle' = nextHandle + 1
                      ELSE UNCHANGED <<nativeFn, nextHandle>>
                 /\ IF kind = "ok"
                      THEN /\ mods' = ModPut(ModTake(mods, m),
                                  Mod([m.mod EXCEPT !.entry =
                                         <<Obj(got.func[1], "module", 0,
                                               FALSE)>>], TRUE))
                           /\ made' = MadeRoot(made, got.func[1])
                           /\ UNCHANGED modFrees
                      ELSE /\ mods' = IF kind = "panic" THEN ModTake(mods, m)
                                      ELSE mods
                           /\ modFrees' = IF kind = "panic"
                                            THEN ModFree(modFrees, m.mod)
                                            ELSE modFrees
                           /\ UNCHANGED made
  /\ UNCHANGED <<registry, freeCount, cache, objs, builder, pushed, nextMod,
                 threads, mutex, listCalls>>

\* module.get_function(name, false), the Function returned kept by the
\* caller
ModGetFunction(m, name) ==
  /\ BagIn(m, mods)
  /\ \E ans \in TVMModGetFunction(m.mod.handle, name) :
       LET got == ModuleGetFunction(ans, nextHandle, name)
       IN /\ ans.found => nextHandle <= MaxHandles /\ Room
          /\ lastOp' = [Op("mod_get_function", name, got.result, <<>>,
                           IF ans.abort THEN <<>> ELSE <<ans.status>>, <<>>)
                          EXCEPT !.prev = <<m>>, !.slot = got.func]
          /\ lastError' = IF got.result.kind = "panic" THEN NativeMsg
                          ELSE lastError
          /\ IF ans.found
               THEN /\ nativeFn' = [nativeFn EXCEPT
                                      ![nextHandle] = "builtin"]
                    /\ nextHandle' = nextHandle + 1
               ELSE UNCHANGED <<nativeFn, nextHandle>>
          /\ IF got.func # <<>>
               THEN /\ objs' = Put(Obj(got.func[1], "module", 0, FALSE))
                    /\ made' = MadeRoot(made, got.func[1])
               ELSE UNCHANGED <<objs, made>>
  /\ UNCHANGED <<registry, freeCount, cache, builder, pushed, mods,
                 modFrees, nextMod, threads, mutex, listCalls>>

\* module.clone()
ModClone(m) ==
  /\ BagIn(m, mods)
  /\ ModRoom
  /\ \A i \in 1..Len(m.mod.entry) : m.mod.entry[i].depth < MaxDepth
  /\ mods' = ModPut(mods, Mod(ModuleClone(m.mod), FALSE))
  /\ made' = IF m.mod.entry = <<>> THEN made
             ELSE MadeClone(made, m.mod.entry[1].fn)
  /\ lastOp' = [Op("module_clone", "", Unit, <<>>, <<>>, <<>>)
                 EXCEPT !.prev = <<m>>]
  /\ UNCHANGED <<registry, nativeFn, nextHandle, freeCount, lastError,
                 cache, objs, builder, pushed, modFrees, nextMod, threads,
                 mutex, listCalls>>

\* a live Module goes out of scope: Drop::drop, then its entry is dropped
ModDrop(m) ==
  /\ BagIn(m, mods)
  /\ mods' = ModTake(mods, m)
  /\ modFrees' = ModFree(modFrees, m.mod)
  /\ freeCount' = FreeAll(freeCount, m.mod.entry)
  /\ lastOp' = [Op("module_drop", "", Unit, <<>>,
                   IF ModuleDropFrees(m.mod) THEN <<0>> ELSE <<>>,
                   DropEvents(m.mod.entry))
                 EXCEPT !.prev = <<m>>]
  /\ UNCHANGED <<registry, nativeFn, nextHandle, lastError, cache, objs,
                 builder, made, pushed, nextMod, threads, mutex, listCalls>>

\* Builder::from(&mut module): the new Builder replaces the Builder in scope
BuilderFromModule(m) ==
  LET old == BuilderDrops(builder)
      taken == EntryTake(m.mod)
  IN /\ BagIn(m, mods)
     /\ mods' = ModPut(ModTake(mods, m), Mod(taken.module, m.resolved))
     /\ builder' = BuilderNew(taken.func, <<>>, <<>>)
     /\ pushed' = <<>>
     /\ freeCount' = FreeAll(freeCount, old)
     /\ lastOp' = [Op("builder_from_module", "", Unit, <<>>, <<>>,
                      DropEvents(old))
                    EXCEPT !.prev = <<m>>]
     /\ UNCHANGED <<registry, nativeFn, nextHandle, lastError, cache, objs,
                    made, modFrees, nextMod, threads, mutex, listCalls>>

\* modules: loading, resolving the entry point, lookups, drop, Builders
\* made from a module, and clones taken before the entry is resolved
NextModule ==
  \/ \E r \in BOOLEAN : NewModule(r)
  \/ \E m \in BagToSet(mods) :
       (nextHandle <= FewHandles \/ m.mod.entry # <<>>) /\ ModEntryFunc(m)
  \/ \E m \in BagToSet(mods), n \in ModNames :
       nextHandle <= FewHandles /\ objs = EmptyBag /\ ModGetFunction(m, n)
  \/ \E m \in BagToSet(mods) : m.mod.entry = <<>> /\ ModClone(m)
  \/ \E m \in BagToSet(mods) : ModDrop(m)
  \/ \E m \in BagToSet(mods) : BuilderFromModule(m)
  \/ \E o \in BagToSet(objs) : DropFn(o)

SpecModule == Init /\ [][NextModule]_vars

\* modules cloned and dropped, with or without a resolved entry
NextModClone ==
  \/ \E r \in BOOLEAN : NewModule(r)
  \/ \E m \in BagToSet(mods) :
       (nextHandle <= FewHandles \/ m.mod.entry # <<>>) /\ ModEntryFunc(m)
  \/ \E m \in BagToSet(mods) : ModClone(m)
  \/ \E m \in BagToSet(mods) : ModDrop(m)

SpecModClone == Init /\ [][NextModClone]_vars

\* --------------------------------------- Function::get_function, by steps
\* the steps at which a thread holds the guard of GLOBAL_FUNCTION_NAMES
Critical == {"find", "get", "unlock"}

\* a lock() that does not wait for the holder
MutexLockBarges(m) == TRUE

\* Mutex::lock: TRUE iff the lock can be taken now; the caller blocks
\* otherwise
MutexLock(m) == m = 0

\* the Function value a thread got from its last call, as a value in scope
HeldBy(th) ==
  [i \in 1..Len(th.res) |-> Obj(th.res[i], "registry", 0, th.res[i].is_global)]

\* the calls the threads of ts have made
RECURSIVE TotalCalls(_)
TotalCalls(ts) ==
  IF ts = {} THEN 0
  ELSE LET t == CHOOSE x \in ts : TRUE
       IN threads[t].calls + TotalCalls(ts \ {t})

\* thread t calls Function::get_function(name, is_global); what its
\* previous call returned goes out of scope
TCall(t, name, is_global) ==
  /\ threads[t].pc = "idle"
  /\ TotalCalls(Threads) < MaxCalls
  /\ threads' = [threads EXCEPT ![t] =
                   Thread("deref", name, is_global, <<>>, @.calls + 1)]
  /\ freeCount' = FreeAll(freeCount, HeldBy(threads[t]))
  /\ lastOp' = Op("drop", "", Unit, <<>>, <<>>, DropEvents(HeldBy(threads[t])))
  /\ UNCHANGED <<registry, nativeFn, nextHandle, lastError, cache, objs,
                 builder, made, pushed, mods, modFrees, nextMod, mutex,
                 listCalls>>

\* GLOBAL_FUNCTION_NAMES is dereferenced: lazy_static runs the initializer
\* on the first dereference, the other threads waiting until it is done
TDeref(t) ==
  /\ threads[t].pc = "deref"
  /\ cache' = CacheDeref
  /\ listCalls' = ListCallsDeref
  /\ threads' = [threads EXCEPT ![t].pc = "lock"]
  /\ UNCHANGED <<registry, nativeFn, nextHandle, freeCount, lastError, objs,
                 builder, made, pushed, lastOp, mods, modFrees, nextMod,
                 mutex>>

\* .lock().unwrap()
TLock(t) ==
  /\ threads[t].pc = "lock"
  /\ MutexLock(mutex)
  /\ mutex' = t
  /\ threads' = [threads EXCEPT ![t].pc = "find"]
  /\ UNCHANGED <<registry, nativeFn, nextHandle, freeCount, lastError,
                 cache, objs, builder, made, pushed, lastOp, mods, modFrees,
                 nextMod, listCalls>>

\* gnames.iter().find(..)?
TFind(t) ==
  /\ threads[t].pc = "find"
  /\ threads' = [threads EXCEPT ![t].pc =
                   IF threads[t].name \in cache[1] THEN "get" ELSE "unlock"]
  /\ UNCHANGED <<registry, nativeFn, nextHandle, freeCount, lastError,
                 cache, objs, builder, made, pushed, lastOp, mods, modFrees,
                 nextMod, mutex, listCalls>>

\* get_global_func(fn_name, is_global)
TGet(t) ==
  LET res == GetGlobalFunc(threads[t].name, threads[t].is_global)
  IN /\ threads[t].pc = "get"
     /\ threads' = [threads EXCEPT ![t].pc = "unlock", ![t].res = res]
     /\ made' = IF res = <<>> THEN made ELSE MadeRoot(made, res[1])
     /\ UNCHANGED <<registry, nativeFn, nextHandle, freeCount, lastError,
                    cache, objs, builder, pushed, lastOp, mods, modFrees,
                    nextMod, mutex, listCalls>>

\* the call returns: the guard gnames is dropped
TUnlock(t) ==
  LET res == threads[t].res
  IN /\ threads[t].pc = "unlock"
     /\ mutex' = 0
     /\ threads' = [threads EXCEPT ![t].pc = "idle"]
     /\ lastOp' = Op("get_function", threads[t].name,
                     IF res = <<>> THEN Result("none", "", 0, kNull)
                     ELSE Result("some", "", res[1].handle, kFuncHandle),
                     <<>>, IF res = <<>> THEN <<>> ELSE <<0>>, <<>>)
     /\ UNCHANGED <<registry, nativeFn, nextHandle, freeCount, lastError,
                    cache, objs, builder, made, pushed, mods, modFrees,
                    nextMod, listCalls>>

\* one step of thread t inside Function::get_function
TStep(t) == TDeref(t) \/ TLock(t) \/ TFind(t) \/ TGet(t) \/ TUnlock(t)

\* threads looking names up while names are registered
NextThreads ==
  \/ \E t \in Threads, n \in Names, g \in BOOLEAN : TCall(t, n, g)
  \/ \E t \in Threads : TDeref(t)
  \/ \E t \in Threads : TLock(t)
  \/ \E t \in Threads : TFind(t)
  \/ \E t \in Threads : TGet(t)
  \/ \E t \in Threads : TUnlock(t)
  \/ \E n \in Names : nextHandle < FewHandles /\ Register("sum", n, TRUE)

SpecThreads == Init /\ [][NextThreads]_vars

\* the same, every thread inside a call being scheduled again and again
SpecThreadsFair ==
  SpecThreads /\ \A t \in Threads : WF_vars(TStep(t))

\* --------------------------------------------------------------- TVMError
\* messages given to set_last: a word, with or without blanks around it
Blanks == {"", " "}
Words == {"Invalid", "e1", "e2", "e3"}
Msgs == { l \o w \o r : l \in Blanks, w \in Words, r \in Blanks }

\* a byte sequence that is not valid UTF-8
BadBytes == "<ff>"

\* what the memory holds between the end of a string literal and the next
\* NUL byte: a &'static str carries no terminator, so the bytes that follow
\* it are whatever the build placed there
OverRead == {"", " ", "x", BadBytes}

\* TVMAPISetLastError given msg.as_ptr(): the runtime copies the C string
\* at the pointer, that is the bytes up to the next NUL
TVMAPISetLastError(msg, after) == msg \o after

\* TVMError::set_last
TVMErrorSetLast(msg, after) == TVMAPISetLastError(msg, after)

\* TVMGetLastError
TVMGetLastError == lastError

\* CStr::to_str: <<s>> for valid UTF-8, <<>> otherwise
ToStr(bytes) ==
  IF \E m \in Msgs : bytes = m \o BadBytes THEN <<>> ELSE <<bytes>>

\* TVMError::get_last
TVMErrorGetLast ==
  LET s == ToStr(TVMGetLastError)
  IN IF s # <<>> THEN s[1] ELSE "Invalid UTF-8 message"

\* the message of the most recent set_last, <<>> when there was none
LastSet ==
  IF lastOp.op = "set_last" THEN <<lastOp.name>>
  ELSE IF lastOp.op = "get_last" THEN lastOp.prev
  ELSE <<>>

\* TVMError::set_last(msg), the literal msg followed in memory by after
SetLast(msg, after) ==
  /\ lastError' = TVMErrorSetLast(msg, after)
  /\ lastOp' = Op("set_last", msg, Unit, <<>>, <<>>, <<>>)
  /\ UNCHANGED <<registry, nativeFn, nextHandle, freeCount, cache, objs,
                 builder, made, pushed, mods, modFrees, nextMod, threads,
                 mutex, listCalls>>

\* TVMError::get_last()
GetLast ==
  /\ lastOp' = [Op("get_last", "", Result("str", TVMErrorGetLast, 0, kNull),
                   <<>>, <<>>, <<>>)
                 EXCEPT !.prev = LastSet]
  /\ UNCHANGED <<registry, nativeFn, nextHandle, freeCount, lastError,
                 cache, objs, builder, made, pushed, mods, modFrees,
                 nextMod, threads, mutex, listCalls>>

\* the error channel: messages set and read back
NextError ==
  \/ \E msg \in Msgs, after \in OverRead : SetLast(msg, after)
  \/ GetLast

SpecError == Init /\ [][NextError]_vars

\* ================================================================ claims
\* the live Function values: free-standing ones and the Builder's func
LiveObjs == BagToSet(objs) \cup { builder.func[i] : i \in 1..Len(builder.func) }

\* the drops of the last operation
Drops == { lastOp.drops[i] : i \in 1..Len(lastOp.drops) }

\* the constructed (not cloned) value of handle h is still live
RootLive(h) == \E o \in LiveObjs : o.fn.handle = h /\ o.origin # "clone"

\* C1: dropping a Function value produced by clone(), whatever it was
\* cloned from and at any cloning depth, never calls TVMFuncFree.
C1_CloneNeverFrees ==
  \A d \in Drops : d.obj.origin = "clone" => ~d.freed

\* C2: a handle whose only Function value was constructed owning, and was
\* cloned at most once, has TVMFuncFree called on it exactly once, by the
\* drop of the constructed value: the count is 0 while that value lives
\* and 1 afterwards, whether the clone is dropped before or after it.
C2_OwnerFreedOnce ==
  \A h \in Handles :
    made[h] \in {"owner", "owner+clone"} =>
      freeCount[h] = IF RootLive(h) THEN 0 ELSE 1

\* C2 witness: an owning Function was cloned once, both values have been
\* dropped, and the handle was freed once.
C2_Witness ==
  \E h \in Handles :
    /\ made[h] = "owner+clone"
    /\ \A o \in LiveObjs : o.fn.handle # h
    /\ freeCount[h] = 1

\* C3: dropping a Function constructed with is_global = TRUE, or any clone
\* derived from it, never calls TVMFuncFree, and every such value still
\* has is_global set.
C3_GlobalNeverFreed ==
  /\ \A d \in Drops : d.obj.rootGlobal => ~d.freed
  /\ \A o \in LiveObjs : o.rootGlobal => o.fn.is_global

\* C3 witness: a clone of a clone of a global Function has been dropped.
C3_Witness ==
  \E d \in Drops : d.obj.rootGlobal /\ d.obj.depth >= 2 /\ ~d.freed

\* C4: dropping a Function resolved by name from the global registry
\* never calls TVMFuncFree, whatever is_global the caller supplied.
C4_RegistryNeverFreed ==
  \A d \in Drops : d.obj.origin = "registry" => ~d.freed

\* the Builder's argument buffer as a sequence (empty when None)
BufOf(b) == IF b.arg_buf = <<>> THEN <<>> ELSE b.arg_buf[1]

\* C5: invoke issues exactly one TVMFuncCall when a function is attached;
\* when none is attached it issues no native call and returns
\* FunctionNotFound, whatever the argument buffer and output slot hold.
C5_InvokeOneCall ==
  [][lastOp'.op = "invoke" =>
       IF builder.func # <<>>
         THEN Len(lastOp'.calls) = 1
         ELSE /\ Len(lastOp'.calls) = 0
              /\ lastOp'.result.kind = "FunctionNotFound"]_vars

\* C5 witness: an invoke with a function, arguments and an output slot has
\* issued its one native call.
C5_Witness ==
  /\ lastOp.op = "invoke"
  /\ Len(lastOp.calls) = 1
  /\ builder.arg_buf # <<>>
  /\ builder.ret_buf # <<>>

\* C6: the argument buffer always holds exactly the pushed values in call
\* order, and an invoke without an output slot passes payload i and tag i
\* of the i-th pushed value, with count the number of pushed values.
C6_InsertionOrder ==
  [][/\ BufOf(builder') = pushed'
     /\ (lastOp'.op = "invoke" /\ builder.func # <<>> /\ builder.ret_buf = <<>>)
          => /\ Len(lastOp'.calls) = 1
             /\ lastOp'.calls[1].num_args = Len(pushed)
             /\ lastOp'.calls[1].values
                  = [i \in 1..Len(pushed) |-> pushed[i].value]
             /\ lastOp'.calls[1].tcodes
                  = [i \in 1..Len(pushed) |-> pushed[i].type_code]]_vars

\* C6 witness: two different values were pushed and an invoke without an
\* output slot passed both.
C6_Witness ==
  /\ lastOp.op = "invoke"
  /\ Len(lastOp.calls) = 1
  /\ builder.ret_buf = <<>>
  /\ Len(pushed) = 2
  /\ pushed[1] # pushed[2]
  /\ lastOp.calls[1].num_args = 2

\* C7: whenever an output slot is registered, invoke passes it as one more
\* trailing payload/tag pair, with count = pushed values + 1, also when
\* no value was pushed.
C7_OutputSlotTrailing ==
  [][(lastOp'.op = "invoke" /\ builder.func # <<>> /\ builder.ret_buf # <<>>)
       => /\ Len(lastOp'.calls) = 1
          /\ lastOp'.calls[1].num_args = Len(pushed) + 1
          /\ Len(lastOp'.calls[1].values) = Len(pushed) + 1
          /\ lastOp'.calls[1].values[Len(pushed) + 1]
               = builder.ret_buf[1][1].value
          /\ lastOp'.calls[1].tcodes[Len(pushed) + 1]
               = builder.ret_buf[1][1].type_code]_vars

\* C8: invoke leaves the Builder as it was, and an invoke that directly
\* follows an invoke issues the same native calls.
C8_InvokeLeavesBuilder ==
  [][lastOp'.op = "invoke" =>
       /\ builder' = builder
       /\ lastOp.op = "invoke" => lastOp'.calls = lastOp.calls]_vars

\* C8 witness: an invoke on a Builder holding a function and arguments.
C8_Witness ==
  /\ lastOp.op = "invoke"
  /\ lastOp.calls # <<>>
  /\ pushed # <<>>
  /\ builder.ret_buf # <<>>

\* C9: when the native call of invoke returns a non-zero status, invoke
\* returns the error NativeCallFailed carrying the last-error string; it
\* does not panic.
C9_NativeFailureReturned ==
  (lastOp.op = "invoke" /\ lastOp.status # <<>> /\ lastOp.status[1] # 0)
    => /\ lastOp.result.kind = "NativeCallFailed"
       /\ lastOp.result.msg = lastError

\* C10: Function::get_function returns a function for every name bound in
\* the native registry, whether the name cache was filled before or after
\* the name was registered.
C10_LookupFindsRegistered ==
  (lastOp.op = "get_function" /\ registry[lastOp.name] # 0)
    => lastOp.result.kind = "some"

\* C11: a registration the registry refuses (the name is bound and
\* override is false) returns the error DuplicateName to the caller of
\* register, without a panic, and leaves the name bound as it was.
C11_DuplicateNameReturned ==
  [][(lastOp'.op = "register" /\ lastOp'.status[2] # 0)
       => /\ lastOp'.result.kind = "DuplicateName"
          /\ registry'[lastOp'.name] = registry[lastOp'.name]]_vars

\* C12: after a registration with override = true of a name that was
\* bound, a lookup of that name resolves to the newly registered function:
\* it returns a function, on a live handle that is not the one bound
\* before and that denotes the closure just registered.
C12_OverrideResolves ==
  [][(/\ lastOp.op = "register" /\ lastOp.result.kind = "ok"
      /\ lastOp.prev # <<>>
      /\ lastOp'.op = "get_function" /\ lastOp'.name = lastOp.name)
       => /\ lastOp'.result.kind = "some"
          /\ lastOp'.result.value # lastOp.prev[1]
          /\ lastOp'.result.value = registry[lastOp.name]
          /\ freeCount[lastOp'.result.value] = 0]_vars

\* the values pushed on the Builder are all integers
AllInts(as) == \A i \in 1..Len(as) : as[i].type_code = kInt

\* C13: once the host function sum is registered under a name,
\* Builder::get_function of that name attaches a function, and an invoke
\* of the attached function with integer arguments (and no output slot)
\* returns the integer that is the sum of the arguments.
C13_CallbackRoundTrip ==
  [][/\ (/\ lastOp'.op = "builder_get_function"
         /\ registry[lastOp'.name] # 0
         /\ nativeFn[registry[lastOp'.name]] = "sum")
          => builder'.func # <<>>
     /\ (/\ lastOp'.op = "invoke"
         /\ builder.func # <<>>
         /\ nativeFn[builder.func[1].fn.handle] = "sum"
         /\ builder.ret_buf = <<>>
         /\ AllInts(pushed))
          => /\ lastOp'.result.kind = "ok"
             /\ lastOp'.result.type_code = kInt
             /\ lastOp'.result.value = SumInts(pushed)]_vars

\* the trampoline runs of the last operation
Runs == { lastOp.cb[k] : k \in 1..Len(lastOp.cb) }

\* C14: when the host function returns an error, the trampoline leaves
\* the function's message as the last error, returns the status -1 without
\* unwinding, and makes no TVMCFuncSetReturn call.
C14_HostErrorReported ==
  \A cb \in Runs :
    (cb.rv # <<>> /\ cb.rv[1].kind = "err")
      => /\ lastError = cb.rv[1].msg
         /\ ~cb.unwound
         /\ cb.status = -1
         /\ lastOp.status = <<-1>>
         /\ EvsOf(cb.trace, "TVMCFuncSetReturn") = <<>>

\* C14 witness: the host function was called with a converted handle
\* argument and returned an error.
C14_Witness ==
  \E cb \in Runs :
    /\ cb.rv # <<>> /\ cb.rv[1].kind = "err"
    /\ EvsOf(cb.trace, "TVMCbArgToReturn") # <<>>
    /\ lastError = FailMsg

\* the Function of an attachment, without its history
FnOf(func) == [i \in 1..Len(func) |-> func[i].fn]

\* C15: Builder::get_function leaves as the Builder's func exactly what
\* Function::get_function returns for the name (None when it returns
\* None); the func attached before is dropped by the call, and
\* TVMFuncFree is called once on its handle when it was owning (not
\* global, not released, not a clone) and on no other handle.
C15_GetFunctionReplaces ==
  [][lastOp'.op = "builder_get_function" =>
       LET old == FnOf(builder.func)
           owning == /\ old # <<>>
                     /\ ~old[1].is_global
                     /\ ~old[1].is_released
                     /\ ~old[1].is_cloned
       IN /\ \E g \in BOOLEAN :
               FnOf(builder'.func) = FunctionGetFunction(lastOp'.name, g)
          /\ Len(lastOp'.drops) = Len(old)
          /\ \A i \in 1..Len(old) :
               /\ lastOp'.drops[i].obj.fn = old[i]
               /\ lastOp'.drops[i].freed = owning
          /\ \A h \in Handles :
               freeCount'[h] =
                 IF owning /\ old[1].handle = h /\ freeCount[h] = 0
                   THEN 1 ELSE IF owning /\ old[1].handle = h
                   THEN 2 ELSE freeCount[h]]_vars

\* C15 witness: a get_function replaced an owning func, which was
\* released, by the function the name resolves to.
C15_Witness ==
  /\ lastOp.op = "builder_get_function"
  /\ lastOp.result.kind = "some"
  /\ Len(lastOp.drops) = 1
  /\ lastOp.drops[1].freed
  /\ builder.func # <<>>
  /\ freeCount[lastOp.drops[1].obj.fn.handle] = 1

\* C16: the output buffer never holds more than one slot; a set_output
\* leaves it holding exactly the slot it was given and leaves the
\* argument buffer and the func as they were; pushing arguments leaves
\* the output buffer as it was.
C16_OneOutputSlot ==
  [][/\ builder'.ret_buf # <<>> => Len(builder'.ret_buf[1]) = 1
     /\ lastOp'.op = "set_output"
          => /\ builder'.ret_buf = <<lastOp'.slot>>
             /\ builder'.arg_buf = builder.arg_buf
             /\ builder'.func = builder.func
             /\ BufOf(builder') = pushed'
     /\ lastOp'.op \in {"arg", "args"}
          => builder'.ret_buf = builder.ret_buf]_vars

\* C16 witness: with arguments pushed, a set_output replaced a slot
\* registered before by a different one.
C16_Witness ==
  /\ lastOp.op = "set_output"
  /\ lastOp.prev # <<>>
  /\ lastOp.prev # lastOp.slot
  /\ pushed # <<>>
  /\ builder.ret_buf = <<lastOp.slot>>

\* the tags of runtime-managed handles
HandleTags == {kNodeHandle, kFuncHandle, kModuleHandle}

\* C17: in every trampoline run TVMCbArgToReturn is called exactly once
\* for each incoming argument tagged node, function or module handle and
\* never for an argument with another tag, and every such call comes
\* before the call of the host function.
C17_ConversionPerHandleArg ==
  \A cb \in Runs :
    /\ \A i \in 1..cb.len :
         Len(SelectSeq(cb.trace,
                       LAMBDA e : e.ev = "TVMCbArgToReturn" /\ e.i = i))
           = IF cb.type_codes_list[i] \in HandleTags THEN 1 ELSE 0
    /\ \A j \in 1..Len(cb.trace), k \in 1..Len(cb.trace) :
         (cb.trace[j].ev = "TVMCbArgToReturn" /\ cb.trace[k].ev = "rust_fn")
           => j < k

\* C18: every trampoline run calls the host function exactly once, with
\* num_args values of which the i-th carries the i-th incoming tag and
\* payload (in its return-position encoding for a handle tag); when the
\* host function returns Ok, its payload and tag are given to
\* TVMCFuncSetReturn exactly once and the run returns status 0.
C18_HostCalledOnce ==
  \A cb \in Runs :
    /\ Len(EvsOf(cb.trace, "rust_fn")) = 1
    /\ Len(cb.local_args) = cb.len
    /\ \A i \in 1..cb.len :
         /\ cb.local_args[i].type_code = cb.type_codes_list[i]
         /\ cb.local_args[i].value =
              IF cb.type_codes_list[i] \in HandleTags
                THEN TVMCbArgToReturn(cb.args_list[i])
                ELSE cb.args_list[i]
    /\ (cb.rv # <<>> /\ cb.rv[1].kind = "ok")
         => /\ cb.set_return
                 = <<[value |-> cb.rv[1].value,
                      type_code |-> cb.rv[1].type_code]>>
            /\ ~cb.unwound
            /\ cb.status = 0
            /\ lastOp.status = <<0>>

\* C19: every trampoline run ends by returning a status to the native
\* caller; none ends in a panic, whatever statuses TVMCbArgToReturn and
\* TVMCFuncSetReturn report.
C19_NeverUnwinds ==
  \A cb \in Runs :
    /\ ~cb.unwound
    /\ cb.trace[Len(cb.trace)].ev = "return"
    /\ lastOp.status = <<cb.status>>

\* C20: an invoke calls TVMFuncFree on no handle, whatever Function the
\* Builder holds (constructed owning or global, or a clone); the drop of a
\* Builder holding an owning Function calls TVMFuncFree on its handle
\* exactly once.
C20_InvokeNeverFrees ==
  [][/\ lastOp'.op = "invoke"
          => /\ freeCount' = freeCount
             /\ \A i \in 1..Len(lastOp'.drops) : ~lastOp'.drops[i].freed
     /\ (/\ lastOp'.op = "builder_drop"
         /\ builder.func # <<>>
         /\ ~builder.func[1].fn.is_global
         /\ ~builder.func[1].fn.is_released
         /\ ~builder.func[1].fn.is_cloned)
          => /\ Len(lastOp'.drops) = 1
             /\ lastOp'.drops[1].freed
             /\ lastOp'.drops[1].obj.fn.handle = builder.func[1].fn.handle]_vars

\* C21: no invoke issues a TVMFuncCall on a handle for which TVMFuncFree
\* has been called before.
C21_NoUseAfterRelease ==
  [][lastOp'.op = "invoke" =>
       \A i \in 1..Len(lastOp'.calls) :
         freeCount[lastOp'.calls[i].handle] = 0]_vars

\* C22: a Module whose entry was resolved by entry_func keeps it: a later
\* entry_func on it issues no native lookup, and a Builder::from(&mut
\* module) on it yields a Builder with a function attached and leaves the
\* Module as it was, its entry still in place.
C22_EntryStaysCached ==
  [][/\ (lastOp'.op = "entry_func" /\ lastOp'.prev[1].resolved)
          => lastOp'.status = <<>>
     /\ (lastOp'.op = "builder_from_module" /\ lastOp'.prev[1].resolved)
          => /\ builder'.func # <<>>
             /\ CopiesIn(lastOp'.prev[1], mods')
                  = CopiesIn(lastOp'.prev[1], mods)]_vars

\* C23: TVMModFree is called at most once on each native module handle.
C23_ModFreeOnce == \A h \in ModHandles : modFrees[h] <= 1

\* C24: a Module::get_function whose native lookup returned status 0
\* returns NullHandle with the requested name and constructs no Function
\* when the reference is null (no handle was handed out), and otherwise
\* returns Ok with a Function on the handle handed out that is not global,
\* not released and not a clone, so that its drop frees the handle.
C24_NullHandleOrOwner ==
  [][(lastOp'.op = "mod_get_function" /\ lastOp'.status = <<0>>) =>
       IF nextHandle' = nextHandle
         THEN /\ lastOp'.result.kind = "NullHandle"
              /\ lastOp'.result.msg = lastOp'.name
              /\ lastOp'.slot = <<>>
              /\ objs' = objs /\ made' = made /\ freeCount' = freeCount
         ELSE /\ lastOp'.result.kind = "ok"
              /\ lastOp'.result.value = nextHandle
              /\ Len(lastOp'.slot) = 1
              /\ LET f == lastOp'.slot[1]
                 IN /\ f.handle = nextHandle
                    /\ ~f.is_global /\ ~f.is_released /\ ~f.is_cloned
                    /\ DropFrees(f)
                    /\ \E o \in BagToSet(objs') :
                         o.fn = f /\ CopiesIn(o, objs') = CopiesIn(o, objs) + 1
              /\ freeCount' = freeCount]_vars

\* a lookup of a name the module does not export has returned NullHandle
C24_Witness ==
  /\ lastOp.op = "mod_get_function"
  /\ lastOp.status = <<0>>
  /\ lastOp.result.kind = "NullHandle"
  /\ lastOp.name \notin ModExports(lastOp.prev[1].mod.handle)
  /\ modFrees[lastOp.prev[1].mod.handle] = 0

\* C25: TVMFuncListGlobalNames is called at most once, whatever the
\* threads do, and once GLOBAL_FUNCTION_NAMES is populated no step changes
\* its contents, a registration included.
C25_CachePopulatedOnce ==
  [][listCalls' <= 1 /\ (cache # <<>> => cache' = cache)]_vars

\* two threads have gone through the cache, populated once, after a name
\* was registered that the cache does not list
C25_Witness ==
  /\ listCalls = 1
  /\ cache # <<>>
  /\ \E n \in Names : registry[n] # 0 /\ n \notin cache[1]
  /\ \A t \in Threads : threads[t].calls >= 1 /\ threads[t].pc = "idle"

Cores ==
  Words \cup { w \o r \o "x" : w \in Words, r \in Blanks }
        \cup { "Invalid UTF-8 message" }

\* str::trim
Trim(s) ==
  IF \E l \in Blanks, c \in Cores, r \in Blanks : s = l \o c \o r
    THEN CHOOSE c \in Cores : \E l \in Blanks, r \in Blanks : s = l \o c \o r
    ELSE s

\* C27: a get_last made after a set_last returns, blanks around it apart,
\* the message the most recent set_last was given.
C27_LastMessageReturned ==
  [][(lastOp'.op = "get_last" /\ lastOp'.prev # <<>>) =>
       Trim(lastOp'.result.msg) = Trim(lastOp'.prev[1])]_vars
====
